---- MODULE Spec2Model ----
(***************************************************************************)
(* Model of the bucket hash table HashMap of src/task1/task1.cpp and of    *)
(* its iterators.  A map is the pair (Table, Sz): Table is the vector of   *)
(* buckets, every bucket a vector of items <<first, second>>, and Sz the   *)
(* stored item counter.  Cursors are <<First, Second>> with the 0-based    *)
(* indices of the source; bucket i of the source is Table[i + 1] here.     *)
(***************************************************************************)
EXTENDS Integers, Sequences, FiniteSets, TLC

\* Table and Sz are the map's members.  Order is a history of the run: the
\* keys the map holds, in the order in which they were inserted.  last
\* records the last operation.
VARIABLES Table, Sz, Order, last

vars == <<Table, Sz, Order, last>>

\* ---------------------------------------------------------------- bounds
\* Keys are 0..MaxKey and values 0..MaxValue.
MaxKey == 11
MaxValue == 1

Keys == 0..MaxKey
\* The small keys are used in every order and with every value; the larger
\* keys fill the table past the load factor.
VarKeys == {0, 1}
FillKeys == Keys \ VarKeys
\* ValueType() of the source, the value operator[] creates, is 0.
DefaultValue == 0
Values == 0..MaxValue

\* ------------------------------------------------------- program constants
LoadFactor == 10
ResizeFactor == 2

\* The caller-supplied hash functor: deterministic, equal keys hash equal.
\* It collides (k and k + 8) and is not monotone in the key.
HashFunction(Key) == (5 * Key) % 8

\* ------------------------------------------------------------- sequences
RECURSIVE Flatten(_)
\* The items of a vector of buckets, in bucket order then slot order: the
\* order of the two nested loops of resize and of a walk over the table.
Flatten(T) == IF T = <<>> THEN <<>> ELSE Head(T) \o Flatten(Tail(T))

RECURSIVE Filter_CutsAtKey(_, _)
\* The loop of del stopped at the key: the items of a bucket before Key.
Filter_CutsAtKey(B, Key) ==
    IF B = <<>> THEN <<>>
    ELSE IF Head(B)[1] # Key THEN <<Head(B)>> \o Filter_CutsAtKey(Tail(B), Key)
         ELSE <<>>

RECURSIVE Filter(_, _)
\* The loop of del: the items of a bucket whose key is not Key, in order.
Filter(B, Key) ==
    IF B = <<>> THEN <<>>
    ELSE IF Head(B)[1] # Key THEN <<Head(B)>> \o Filter(Tail(B), Key)
         ELSE Filter(Tail(B), Key)

RECURSIVE EmptyBuckets(_)
\* n empty buckets.
EmptyBuckets(n) == IF n <= 0 THEN <<>> ELSE Append(EmptyBuckets(n - 1), <<>>)

\* std::vector::resize(n) on a vector of buckets: truncate or pad with
\* empty buckets.
VectorResize(T, n) ==
    IF n <= Len(T) THEN SubSeq(T, 1, n) ELSE T \o EmptyBuckets(n - Len(T))

\* ------------------------------------------------------------ the HashMap
Map(T, s) == [Table |-> T, Sz |-> s]

size(m) == m.Sz

empty(m) == m.Sz = 0

initialize(m) == Map(VectorResize(m.Table, 1), m.Sz)

\* A map whose table has no bucket: the state in which get_hash divides by 0.
NoBuckets(m) == Len(m.Table) = 0

get_hash(m, Key) == HashFunction(Key) % Len(m.Table)

get_iterator(f, s) == <<f, s>>

end(m) == get_iterator(Len(m.Table), 0)

begin(m) == IF empty(m) THEN end(m) ELSE get_iterator(0, 0)

\* operator== of the iterators, for two iterators of the same table.
IteratorEq(a, b) == a[1] = b[1] /\ a[2] = b[2]

\* The slot of Key in bucket B (0-based), or Len(B) when B does not hold it.
RECURSIVE SlotOf(_, _, _)
SlotOf(B, Key, j) ==
    IF j = Len(B) THEN j
    ELSE IF B[j + 1][1] = Key THEN j
         ELSE SlotOf(B, Key, j + 1)

find(m, Key) ==
    IF empty(m) THEN end(m)
    ELSE LET i == get_hash(m, Key)
             j == SlotOf(m.Table[i + 1], Key, 0)
         IN  IF j # Len(m.Table[i + 1]) THEN get_iterator(i, j) ELSE end(m)

\* add that appends to the first bucket, whatever the hash.
add_FirstBucket(m, Item) ==
    Map([m.Table EXCEPT ![1] = Append(@, Item)], m.Sz + 1)

\* add that puts the item at the front of its bucket.
add_Front(m, Item) ==
    LET i == HashFunction(Item[1]) % Len(m.Table)
    IN  Map([m.Table EXCEPT ![i + 1] = <<Item>> \o @], m.Sz + 1)

add(m, Item) ==
    LET i == get_hash(m, Item[1])
    IN  Map([m.Table EXCEPT ![i + 1] = Append(@, Item)], m.Sz + 1)

\* del that counts a removal whether or not the bucket held the key.
del_AlwaysCounts(m, Key) ==
    LET i == get_hash(m, Key)
    IN  Map([m.Table EXCEPT ![i + 1] = Filter(@, Key)], m.Sz - 1)

del(m, Key) ==
    LET i == get_hash(m, Key)
        NewBucket == Filter(m.Table[i + 1], Key)
    IN  IF Len(NewBucket) # Len(m.Table[i + 1])
        THEN Map([m.Table EXCEPT ![i + 1] = NewBucket], m.Sz - 1)
        ELSE m

\* is_dense with the threshold one resize factor too high.
is_dense_Late(m) == size(m) > Len(m.Table) * LoadFactor * ResizeFactor

is_dense(m) == size(m) > Len(m.Table) * LoadFactor

\* is_sparse with the threshold one resize factor too low.
is_sparse_Late(m) == size(m) * LoadFactor * ResizeFactor < Len(m.Table)

is_sparse(m) == size(m) * LoadFactor < Len(m.Table)

RECURSIVE AddAll(_, _)
\* The re-insertion loops of resize: add every old item in turn.
AddAll(m, Items) ==
    IF Items = <<>> THEN m ELSE AddAll(add(m, Head(Items)), Tail(Items))

\* resize that resizes the vector of buckets in place, without re-adding.
resize_InPlace(m, n) ==
    LET T == VectorResize(m.Table, n)
    IN  IF Len(T) = 0 THEN initialize(Map(T, 0))
        ELSE Map(T, Len(Flatten(T)))

\* resize that does not reset the counter before it re-adds the items.
resize_KeepsCount(m, n) ==
    LET Old == Flatten(m.Table)
        Re == AddAll(Map(VectorResize(<<>>, IF n = 0 THEN 1 ELSE n), m.Sz), Old)
    IN  Re

\* resize(n).  With n = 0 and an item to re-add, add computes a bucket index
\* modulo 0: the run ends there, with a table of no buckets.
resize(m, n) ==
    LET Old == Flatten(m.Table)
        Fresh == Map(VectorResize(<<>>, n), 0)
    IN  IF n = 0 /\ Old # <<>> THEN Fresh
        ELSE LET Re == AddAll(Fresh, Old)
             IN  IF Len(Re.Table) = 0 THEN initialize(Re) ELSE Re

\* The load check with a growth to twice the bucket count.
Rebalance_DoubleBuckets(m) ==
    IF is_dense(m) THEN resize(m, Len(m.Table) * ResizeFactor)
    ELSE IF is_sparse(m) THEN resize(m, size(m) \div ResizeFactor)
    ELSE m

\* The load check with a shrink to half the bucket count.
Rebalance_HalveBuckets(m) ==
    IF is_dense(m) THEN resize(m, size(m) * ResizeFactor)
    ELSE IF is_sparse(m) THEN resize(m, Len(m.Table) \div ResizeFactor)
    ELSE m

\* The load check without the shrink.
Rebalance_GrowOnly(m) ==
    IF is_dense(m) THEN resize(m, size(m) * ResizeFactor) ELSE m

\* The load check that ends insert and erase.
Rebalance(m) ==
    IF is_dense(m) THEN resize(m, size(m) * ResizeFactor)
    ELSE IF is_sparse(m) THEN resize(m, size(m) \div ResizeFactor)
    ELSE m

\* insert without the lookup of the key.
insert_NoLookup(m, Item) == Rebalance(add(m, Item))

insert(m, Item) ==
    IF ~IteratorEq(find(m, Item[1]), end(m)) THEN m
    ELSE Rebalance(add(m, Item))

erase(m, Key) == Rebalance(del(m, Key))

clear(m) == initialize(Map(<<>>, 0))

\* The default constructor.
HashMap == initialize(Map(<<>>, 0))

RECURSIVE InsertAll(_, _)
\* The loop of the range and list constructors and of operator=.
InsertAll(m, Items) ==
    IF Items = <<>> THEN m
    ELSE InsertAll(insert(m, Head(Items)), Tail(Items))

\* The constructor from an initializer list (or a range of pairs).
HashMapFromList(List) == InsertAll(HashMap, List)

\* ------------------------------------------------------------ the iterators
\* A cursor that designates a stored item.
Valid(m, c) ==
    /\ c[1] < Len(m.Table)
    /\ c[2] < Len(m.Table[c[1] + 1])

\* The first bucket index from f on that is the bucket count or a non-empty
\* bucket: the while loop of operator++.
RECURSIVE SkipEmpty(_, _)
SkipEmpty(m, f) ==
    IF f # Len(m.Table) /\ Len(m.Table[f + 1]) = 0 THEN SkipEmpty(m, f + 1)
    ELSE f

\* operator++ that steps to the next bucket without looking whether it is
\* empty.
Advance_NextBucket(m, c) ==
    IF c[2] + 1 >= Len(m.Table[c[1] + 1])
    THEN <<c[1] + 1, 0>>
    ELSE <<c[1], c[2] + 1>>

\* The bucket indices the while loop of operator++ reads, from f on.
RECURSIVE SkipReads(_, _)
SkipReads(m, f) ==
    IF f # Len(m.Table)
    THEN {f} \cup (IF Len(m.Table[f + 1]) = 0 THEN SkipReads(m, f + 1) ELSE {})
    ELSE {}

\* The bucket indices operator++ reads on the cursor c.
AdvanceReads(m, c) ==
    {c[1]} \cup (IF c[2] + 1 >= Len(m.Table[c[1] + 1])
                 THEN SkipReads(m, c[1] + 1) ELSE {})

\* operator++ of both iterators, on a cursor other than end.
Advance(m, c) ==
    IF c[2] + 1 >= Len(m.Table[c[1] + 1])
    THEN <<SkipEmpty(m, c[1] + 1), 0>>
    ELSE <<c[1], c[2] + 1>>

\* The cursors a loop "for (i = c; i != end(); ++i)" visits.
RECURSIVE WalkFrom(_, _)
WalkFrom(m, c) ==
    IF IteratorEq(c, end(m)) THEN <<>>
    ELSE <<c>> \o WalkFrom(m, Advance(m, c))

Walk(m) == WalkFrom(m, begin(m))

\* operator* : the item under a cursor.  Under a cursor that designates no
\* item the read is out of the bucket's bounds, and yields g.
Deref(m, c, g) ==
    IF Valid(m, c) THEN m.Table[c[1] + 1][c[2] + 1] ELSE g

\* The items a range-for over the map reads, in order.
RECURSIVE DerefAll(_, _, _)
DerefAll(m, w, g) ==
    IF w = <<>> THEN <<>>
    ELSE <<Deref(m, Head(w), g)>> \o DerefAll(m, Tail(w), g)

RangeItems(m, g) == DerefAll(m, Walk(m), g)

\* A walk that reads out of bounds.
WalkReadsOutOfBounds(m) ==
    LET w == Walk(m) IN \E n \in 1..Len(w) : ~Valid(m, w[n])

\* ----------------------------------------------------- the other operations
NoValue == 0 - 1

\* operator[] that keeps the cursor it found before the insertion.
index_StaleCursor(m, Key) ==
    LET j == find(m, Key)
    IN  IF IteratorEq(j, end(m))
        THEN [map |-> insert(m, <<Key, DefaultValue>>), ref |-> j]
        ELSE [map |-> m, ref |-> j]

\* operator[](Key): the map afterwards and the cursor of the item whose
\* value it returns a reference to.
index(m, Key) ==
    LET j == find(m, Key)
    IN  IF IteratorEq(j, end(m))
        THEN LET m2 == insert(m, <<Key, DefaultValue>>)
             IN  [map |-> m2, ref |-> find(m2, Key)]
        ELSE [map |-> m, ref |-> j]

\* at that looks the key up with operator[].
at_Inserting(m, Key) ==
    LET r == index(m, Key)
    IN  [map |-> r.map, out |-> "ok",
         val |-> Deref(r.map, r.ref, <<Key, NoValue>>)[2]]

\* at(Key): the map afterwards, the outcome and the value returned.
at(m, Key) ==
    LET j == find(m, Key)
    IN  IF IteratorEq(j, end(m))
        THEN [map |-> m, out |-> "error", val |-> NoValue]
        ELSE [map |-> m, out |-> "ok", val |-> Deref(m, j, <<Key, NoValue>>)[2]]

\* A write of w to the value a reference designates.
WriteSecond(m, c, w) ==
    IF Valid(m, c)
    THEN Map([m.Table EXCEPT ![c[1] + 1][c[2] + 1][2] = w], m.Sz)
    ELSE m

\* operator=(Oth) on the map m, with g what a read out of bounds yields.
assign(m, Oth, g) == InsertAll(clear(m), RangeItems(Oth, g))

RECURSIVE SelfLoop(_, _, _, _)
\* The range-for of operator= when Oth is the map assigned to: the walk
\* from c to the end cursor e goes over the map the inserts change.
SelfLoop(m, c, e, g) ==
    IF IteratorEq(c, e) THEN m
    ELSE LET m2 == insert(m, Deref(m, c, g))
         IN  SelfLoop(m2, Advance(m2, c), e, g)

\* operator=(Oth) with Oth the map itself: clear() empties Oth too.
assign_self(m, g) ==
    LET c == clear(m) IN SelfLoop(c, begin(c), end(c), g)

\* ------------------------------------------------------- what a map holds
\* The contents of a map read off its buckets, without hashing.
Items(m) == Flatten(m.Table)

\* The positions <<bucket, slot>> of the table, counted from 1.
Slots(m) ==
    UNION {{<<b, j>> : j \in 1..Len(m.Table[b])} : b \in 1..Len(m.Table)}

ItemSet(m) == {m.Table[p[1]][p[2]] : p \in Slots(m)}

Holds(m, k) ==
    \E b \in 1..Len(m.Table) :
        \E j \in 1..Len(m.Table[b]) : m.Table[b][j][1] = k

Count(m, k) == Cardinality({p \in Slots(m) : m.Table[p[1]][p[2]][1] = k})

\* -------------------------------------------------------------- the state
This == Map(Table, Sz)

NoFillStored == \A k \in FillKeys : ~Holds(This, k)

\* The last operation: its name, its outcome, the key it added or removed
\* (or NoKey), the value it was given or returned (or NoValue), the list a
\* constructor was given and, for an assignment, the destination map it
\* produced.
NoKey == 0 - 1
Did(op, out, key, val) ==
    [op |-> op, out |-> out, key |-> key, val |-> val, list |-> <<>>,
     dst |-> HashMap]

\* ------------------------------------------------------------ the workload
\* A small key not stored is inserted while no fill key is stored; the fill
\* keys are inserted in ascending order, one after the other.
MayInsertNew(k) ==
    \/ k \in VarKeys /\ NoFillStored
    \/ k \in FillKeys /\ (k - 1 \in FillKeys => Holds(This, k - 1))

\* Small keys take every value, a fill key one value that depends on it.
ValuesFor(k) == IF k \in VarKeys THEN Values ELSE {k % (MaxValue + 1)}

\* A stored fill key is erased when it is the greatest one.
MayErase(k) ==
    \/ k \in VarKeys
    \/ ~Holds(This, k)
    \/ k + 1 \in FillKeys => ~Holds(This, k + 1)

\* The lists the list constructor is given: up to MaxList pairs of a small
\* key and a value.
MaxList == 3
Pairs == VarKeys \X Values
Lists == UNION {[1..n -> Pairs] : n \in 0..MaxList}

\* What a read out of a bucket's bounds may yield: some pair (here one of
\* a small key and a value), or the end of the run.
Crash == <<NoValue, NoValue>>
Garbage == Pairs \cup {Crash}

\* The destination maps assigned to.
DstBefore == {HashMap, HashMapFromList(<<<<0, MaxValue>>, <<1, 0>>>>)}

Alive == ~NoBuckets(This)

\* The insertion history after a key was inserted, and after one was erased.
Noted(ord, k) ==
    IF \E n \in 1..Len(ord) : ord[n] = k THEN ord ELSE Append(ord, k)

Forgotten(ord, k) == SelectSeq(ord, LAMBDA x : x # k)

RECURSIVE NotedAll(_, _)
\* The insertion history after the pairs of a list were inserted in turn.
NotedAll(ord, List) ==
    IF List = <<>> THEN ord
    ELSE NotedAll(Noted(ord, Head(List)[1]), Tail(List))

\* -------------------------------------------------------------- operations
\* The map is constructed from a list (from the empty list: by default).
Init ==
    \E List \in Lists :
        /\ Table = HashMapFromList(List).Table
        /\ Sz = HashMapFromList(List).Sz
        /\ Order = NotedAll(<<>>, List)
        /\ last = [Did("construct", "ok", NoKey, NoValue) EXCEPT !.list = List]

Insert(k, v) ==
    /\ Alive
    /\ Holds(This, k) \/ (MayInsertNew(k) /\ v \in ValuesFor(k))
    /\ LET m == insert(This, <<k, v>>)
       IN  /\ Table' = m.Table
           /\ Sz' = m.Sz
    /\ Order' = Noted(Order, k)
    /\ last' = IF ~Holds(This, k) THEN Did("insert", "added", k, v)
               ELSE IF <<k, v>> \in ItemSet(This)
                    THEN Did("insert", "present", NoKey, NoValue)
                    ELSE Did("insert", "present, other value", NoKey, NoValue)

Erase(k) ==
    /\ Alive
    /\ MayErase(k)
    /\ LET m == erase(This, k)
       IN  /\ Table' = m.Table
           /\ Sz' = m.Sz
    /\ Order' = Forgotten(Order, k)
    /\ last' = IF Holds(This, k) THEN Did("erase", "removed", k, NoValue)
               ELSE Did("erase", "absent", NoKey, NoValue)

Clear ==
    /\ Alive
    /\ LET m == clear(This)
       IN  /\ Table' = m.Table
           /\ Sz' = m.Sz
    /\ Order' = <<>>
    /\ last' = Did("clear", "ok", NoKey, NoValue)

At(k) ==
    /\ Alive
    /\ LET r == at(This, k)
       IN  /\ Table' = r.map.Table
           /\ Sz' = r.map.Sz
           /\ last' = Did("at", r.out, NoKey, r.val)
    /\ UNCHANGED Order

\* t[k], the value read through the reference.  A key is created by it when
\* the workload inserts that key with the default value.
Index(k) ==
    /\ Alive
    /\ Holds(This, k) \/ (MayInsertNew(k) /\ DefaultValue \in ValuesFor(k))
    /\ LET r == index(This, k)
           val == Deref(r.map, r.ref, <<k, NoValue>>)[2]
       IN  /\ Table' = r.map.Table
           /\ Sz' = r.map.Sz
           /\ last' = IF Holds(This, k) THEN Did("index", "existing", NoKey, val)
                      ELSE Did("index", "created", k, val)
    /\ Order' = Noted(Order, k)

\* t[k] = w, for a value w the workload gives the key.
IndexAssign(k, w) ==
    /\ Alive
    /\ w \in ValuesFor(k)
    /\ Holds(This, k) \/ MayInsertNew(k)
    /\ LET r == index(This, k)
           m == WriteSecond(r.map, r.ref, w)
       IN  /\ Table' = m.Table
           /\ Sz' = m.Sz
    /\ Order' = Noted(Order, k)
    /\ last' = IF Holds(This, k) THEN Did("index=", "existing", NoKey, w)
               ELSE Did("index=", "created", k, w)

\* d = t for another map d.  A walk that reads out of bounds yields g, or
\* ends the run right after d was cleared.
Assign(d, g) ==
    /\ Alive
    /\ WalkReadsOutOfBounds(This) \/ g = Crash
    /\ LET crashed == WalkReadsOutOfBounds(This) /\ g = Crash
       IN  last' = [Did("assign", IF crashed THEN "crash" ELSE "ok", NoKey, NoValue)
                      EXCEPT !.dst = IF crashed THEN clear(d)
                                     ELSE assign(d, This, g)]
    /\ UNCHANGED <<Table, Sz, Order>>

\* t = t.
SelfAssign(g) ==
    /\ Alive
    /\ LET m == assign_self(This, g)
       IN  /\ Table' = m.Table
           /\ Sz' = m.Sz
           /\ Order' = NotedAll(<<>>, Items(m))
    /\ last' = Did("self-assign", "ok", NoKey, NoValue)

Next ==
    \/ \E k \in Keys, v \in Values : Insert(k, v)
    \/ \E k \in Keys : Erase(k)
    \/ Clear
    \/ \E k \in Keys : At(k)
    \/ \E k \in Keys : Index(k)
    \/ \E k \in Keys, w \in Values : IndexAssign(k, w)
    \/ \E d \in DstBefore, g \in Garbage : Assign(d, g)
    \/ \E g \in Garbage : SelfAssign(g)

Spec == Init /\ [][Next]_vars

\* --------------------------------------------------- reading a map's state
\* The map after the step.
ThisNext == Map(Table', Sz')

\* find(k) designates a stored item, and that item is e.
FindsItem(m, k, e) ==
    /\ ~IteratorEq(find(m, k), end(m))
    /\ Valid(m, find(m, k))
    /\ Deref(m, find(m, k), Crash) = e

FindsNothing(m, k) == IteratorEq(find(m, k), end(m))

\* The value of the first pair of List with key k.
FirstValue(List, k) ==
    List[CHOOSE n \in 1..Len(List) :
            /\ List[n][1] = k
            /\ \A j \in 1..(n - 1) : List[j][1] # k][2]

\* ------------------------------------------------------------------ claims
\* C1: a map holds at most one entry per key (after the constructors'
\* inserts, after inserts and erases, and in the destination of an
\* assignment); insert(k, v2) on a map that holds k leaves every entry as it
\* was; a map constructed from a list holds, for each key of the list, the
\* value of the key's first occurrence.
C1_Uniqueness ==
    /\ [](\A k \in Keys : Count(This, k) <= 1 /\ Count(last.dst, k) <= 1)
    /\ [](last.op = "construct" =>
            \A k \in Keys :
                IF \E n \in 1..Len(last.list) : last.list[n][1] = k
                THEN <<k, FirstValue(last.list, k)>> \in ItemSet(This)
                ELSE ~Holds(This, k))
    /\ [][last'.op = "insert" /\ last'.out # "added" =>
            Table' = Table /\ Sz' = Sz]_vars

\* An insert met a stored key of a grown table with another value.
C1_Witness ==
    /\ last.op = "insert"
    /\ last.out = "present, other value"
    /\ Len(Table) > 1

\* C2: a key inserted with a value is found with that value, and stays
\* found with it while other keys are inserted and erased, resizes included;
\* after erase(k) find(k) is end(), and stays end() while k is not inserted.
C2_RoundTrip ==
    [][last'.op \in {"insert", "erase"} =>
        /\ last'.out = "added" =>
              FindsItem(ThisNext, last'.key, <<last'.key, last'.val>>)
        /\ last'.out = "removed" => FindsNothing(ThisNext, last'.key)
        /\ \/ Table' = Table /\ Sz' = Sz
           \/ \A k \in Keys \ {last'.key} :
                 IF FindsNothing(This, k) THEN FindsNothing(ThisNext, k)
                 ELSE /\ Valid(This, find(This, k))
                      /\ FindsItem(ThisNext, k,
                                   Deref(This, find(This, k), Crash))]_vars

\* A small key outlived the growth of the table, and an erase in the grown
\* table removed another key.
C2_Witness ==
    /\ Len(Table) > 1
    /\ last.op = "erase"
    /\ last.out = "removed"
    /\ \E v \in Values : FindsItem(This, 0, <<0, v>>)

\* C3: after every operation size() is the number of entries in the buckets
\* and empty() holds exactly when there is none, in the map and in the
\* destination of an assignment.
C3_SizeAccounting ==
    /\ size(This) = Len(Items(This))
    /\ empty(This) <=> Len(Items(This)) = 0
    /\ size(last.dst) = Len(Items(last.dst))
    /\ empty(last.dst) <=> Len(Items(last.dst)) = 0

\* An insert has just resized the table, re-adding the entries.
C3_Witness ==
    /\ last.op = "insert"
    /\ Len(Table) > 1
    /\ Sz = LoadFactor + 1

\* C4: after every operation size() <= bucket_count * 10, and
\* size() * 10 >= bucket_count unless there is one bucket.
C4_LoadFactorBound ==
    /\ Sz <= Len(Table) * LoadFactor
    /\ Len(Table) > 1 => Sz * LoadFactor >= Len(Table)

\* An erase left a table of several buckets at the least size they allow.
C4_Witness ==
    /\ last.op = "erase"
    /\ last.out = "removed"
    /\ Len(Table) > 1
    /\ (Sz - 1) * LoadFactor < Len(Table)

C6_AtLeavesUnmodified ==
    [][last'.op = "at" =>
        \A k \in Keys :
            At(k) =>
                /\ Table' = Table
                /\ Sz' = Sz
                /\ IF Holds(This, k)
                   THEN last'.out = "ok" /\ <<k, last'.val>> \in ItemSet(This)
                   ELSE last'.out = "error" /\ last'.val = NoValue]_vars

\* at() failed on a grown table that holds other keys.
C6_Witness ==
    /\ last.op = "at"
    /\ last.out = "error"
    /\ Len(Table) > 1

\* C7: t[k] on an absent key adds the one entry (k, default), size grows by
\* one, and find(k) then designates the entry the reference does, so that a
\* write of w through it leaves find(k) at (k, w); on a stored key it
\* returns the stored value and changes nothing, and a write through it
\* changes the value of k only.
C7_IndexedAccess ==
    [][last'.op \in {"index", "index="} =>
        \A k \in {x \in Keys : last'.key \in {x, NoKey}} :
            /\ last'.op = "index" /\ Index(k) =>
                  IF Holds(This, k)
                  THEN /\ Table' = Table
                       /\ Sz' = Sz
                       /\ <<k, last'.val>> \in ItemSet(This)
                  ELSE /\ Sz' = Sz + 1
                       /\ Len(Items(ThisNext)) = Len(Items(This)) + 1
                       /\ ItemSet(ThisNext) = ItemSet(This) \cup {<<k, DefaultValue>>}
                       /\ FindsItem(ThisNext, k, <<k, DefaultValue>>)
                       /\ last'.val = DefaultValue
            /\ last'.op = "index=" /\ IndexAssign(k, last'.val) =>
                  /\ Sz' = IF Holds(This, k) THEN Sz ELSE Sz + 1
                  /\ Len(Items(ThisNext)) = Sz'
                  /\ ItemSet(ThisNext) =
                        {e \in ItemSet(This) : e[1] # k} \cup {<<k, last'.val>>}
                  /\ FindsItem(ThisNext, k, <<k, last'.val>>)]_vars

\* t[k] = w created the entry whose insertion grew the table.
C7_Witness ==
    /\ last.op = "index="
    /\ last.out = "created"
    /\ Len(Table) > 1
    /\ Sz = LoadFactor + 1

\* C8: after d = t the destination holds the entries of t, inserted in the
\* order of a walk over t, and has the size of t.
C8_CopyAssignment ==
    last.op = "assign" =>
        /\ last.out = "ok"
        /\ last.dst = InsertAll(HashMap, Items(This))
        /\ ItemSet(last.dst) = ItemSet(This)
        /\ size(last.dst) = Sz

\* C9: erase(k) on a map that does not hold k leaves the entries, the size
\* and the bucket count as they were.
C9_EraseAbsent ==
    [][last'.op = "erase" /\ last'.out = "absent" =>
        /\ ItemSet(ThisNext) = ItemSet(This)
        /\ Len(Items(ThisNext)) = Len(Items(This))
        /\ Sz' = Sz
        /\ Len(Table') = Len(Table)]_vars

\* An absent key was erased from a grown table.
C9_Witness ==
    /\ last.op = "erase"
    /\ last.out = "absent"
    /\ Len(Table) > 1
    /\ Sz > 0

\* Every entry lies in the bucket of its hash for the bucket count of m.
Rehashed(m) ==
    \A b \in 1..Len(m.Table) :
        \A j \in 1..Len(m.Table[b]) :
            HashFunction(m.Table[b][j][1]) % Len(m.Table) = b - 1

\* The insert of the step added an entry that made the table over-dense.
GrowingInsert ==
    /\ last'.op = "insert"
    /\ last'.out = "added"
    /\ Sz + 1 > Len(Table) * LoadFactor

\* C10 as stated: a growing insert ends with twice the bucket count it
\* began with.
C10_GrowDoublesBuckets ==
    [][GrowingInsert => Len(Table') = ResizeFactor * Len(Table)]_vars

\* C10 as amended: a growing insert ends with a bucket count of twice the
\* size reached, every entry kept and rehashed into the new layout.
C10_GrowToTwiceSize ==
    [][GrowingInsert =>
        /\ Sz' = Sz + 1
        /\ Len(Table') = ResizeFactor * Sz'
        /\ Len(Items(ThisNext)) = Sz'
        /\ ItemSet(ThisNext) = ItemSet(This) \cup {<<last'.key, last'.val>>}
        /\ Rehashed(ThisNext)]_vars

\* An insert has just grown the table from 1 bucket to 22.
C10_Witness ==
    /\ last.op = "insert"
    /\ last.out = "added"
    /\ Sz = LoadFactor + 1
    /\ Len(Table) = ResizeFactor * (LoadFactor + 1)

\* The erase of the step removed an entry and left the table sparse and
\* not over-dense.
ShrinkingErase ==
    /\ last'.op = "erase"
    /\ last'.out = "removed"
    /\ ~(Sz - 1 > Len(Table) * LoadFactor)
    /\ (Sz - 1) * LoadFactor < Len(Table)

\* At least 1: n, or 1 when n is 0.
AtLeastOne(n) == IF n = 0 THEN 1 ELSE n

\* C11 as stated: a shrinking erase ends with half the bucket count it began
\* with (integer division), or with 1 when that is 0.
C11_ShrinkHalvesBuckets ==
    [][ShrinkingErase =>
        Len(Table') = AtLeastOne(Len(Table) \div ResizeFactor)]_vars

\* C11 as amended: a shrinking erase ends with a bucket count of half the
\* size reached (integer division), or 1 when that is 0, every remaining
\* entry kept and rehashed into the new layout.
C11_ShrinkToHalfSize ==
    [][ShrinkingErase =>
        /\ Sz' = Sz - 1
        /\ Len(Table') = AtLeastOne(Sz' \div ResizeFactor)
        /\ Len(Items(ThisNext)) = Sz'
        /\ ItemSet(ThisNext) = {e \in ItemSet(This) : e[1] # last'.key}
        /\ Rehashed(ThisNext)]_vars

\* An erase has just shrunk the table from 22 buckets to 1, at size 2.
C11_Witness ==
    /\ last.op = "erase"
    /\ last.out = "removed"
    /\ Sz = ResizeFactor
    /\ Len(Table) = 1
    /\ Len(Order) = ResizeFactor
    /\ \E k \in FillKeys : Holds(This, k)

\* The buckets that hold an entry of key k.
BucketsOf(m, k) ==
    {b \in 1..Len(m.Table) :
        \E j \in 1..Len(m.Table[b]) : m.Table[b][j][1] = k}

\* Every entry of m is in one bucket, the one of its hash, and find reaches
\* it.
WellPlaced(m) ==
    /\ Rehashed(m)
    /\ \A k \in Keys :
          Holds(m, k) =>
              /\ BucketsOf(m, k) = {get_hash(m, k) + 1}
              /\ Count(m, k) = 1
              /\ ~FindsNothing(m, k)
              /\ Valid(m, find(m, k))
              /\ find(m, k)[1] = get_hash(m, k)

\* C12: after every operation every stored entry is in exactly one bucket,
\* the one of index hash(key) mod bucket_count for the current bucket
\* count, also after a grow and after a shrink, and find(key) reaches it;
\* the same holds in the destination of an assignment.
C12_BucketOfHash ==
    /\ Len(Table) >= 1 => WellPlaced(This)
    /\ Len(last.dst.Table) >= 1 => WellPlaced(last.dst)

\* The entries of a grown table, two of them sharing a bucket, lie where
\* their hashes modulo 22 say.
C12_Witness ==
    /\ Len(Table) = ResizeFactor * (LoadFactor + 1)
    /\ \E b \in 1..Len(Table) : Len(Table[b]) > 1
    /\ \E b \in 2..Len(Table) : Len(Table[b]) > 0

\* The map at the load check of the step's operation: the map after the add
\* or the del of the step (insert returns before the check when it finds
\* the key).
AtLoadCheck ==
    IF last'.op = "erase"
    THEN IF last'.out = "removed" THEN del(This, last'.key) ELSE This
    ELSE IF last'.op = "insert"
         THEN add(This, <<last'.key, last'.val>>)
         ELSE add(This, <<last'.key, DefaultValue>>)

\* The step's operation reaches the load check.
ReachesLoadCheck ==
    \/ last'.op = "erase"
    \/ last'.op = "insert" /\ last'.out = "added"
    \/ last'.op \in {"index", "index="} /\ last'.out = "created"

\* The bucket count resize is called with at the load check of m, or
\* NoValue when it is not called.
ResizeTarget(m) ==
    IF is_dense(m) THEN size(m) * ResizeFactor
    ELSE IF is_sparse(m) THEN size(m) \div ResizeFactor
    ELSE NoValue

\* C13: the bucket count is at least 1 after every operation (in the map and
\* in the destination of an assignment), and at the load check of insert
\* and erase resize is called with 0 only on a table without entries: no
\* table of size 1 and 11 buckets or more comes to the shrink check.
C13_BucketCountPositive ==
    /\ [](Len(Table) >= 1 /\ Len(last.dst.Table) >= 1)
    /\ [][ReachesLoadCheck =>
            /\ ResizeTarget(AtLoadCheck) = 0 => Items(AtLoadCheck) = <<>>
            /\ ~(size(AtLoadCheck) = 1 /\
                    Len(AtLoadCheck.Table) >= LoadFactor + 1)]_vars

\* The erase of the last entry has called resize(0) on the emptied table of
\* one bucket, which ends with one bucket again.
C13_Witness ==
    /\ last.op = "erase"
    /\ last.out = "removed"
    /\ Sz = 0
    /\ Len(Table) = 1

\* The value a map holds for a key it holds.
ValueOf(m, k) ==
    LET p == CHOOSE q \in Slots(m) : m.Table[q[1]][q[2]][1] = k
    IN  m.Table[p[1]][p[2]][2]

\* Every key other than k is held after the step iff it was held before,
\* once and with the same value.
OthersKept(k) ==
    \A k2 \in Keys \ {k} :
        /\ Holds(ThisNext, k2) <=> Holds(This, k2)
        /\ Holds(This, k2) =>
              /\ Count(ThisNext, k2) = 1
              /\ ValueOf(ThisNext, k2) = ValueOf(This, k2)
              /\ FindsItem(ThisNext, k2, <<k2, ValueOf(This, k2)>>)

\* C14: insert(k, v) with k absent and erase(k) with k present change the
\* association of k only, also when they rehash: every other key is held
\* afterwards iff it was before, once and with the same value; the size
\* grows by exactly 1 for the insert and falls by exactly 1 for the erase.
C14_Frame ==
    [][/\ last'.op = "insert" /\ last'.out = "added" =>
            /\ OthersKept(last'.key)
            /\ <<last'.key, last'.val>> \in ItemSet(ThisNext)
            /\ Count(ThisNext, last'.key) = 1
            /\ Sz' = Sz + 1
            /\ Len(Items(ThisNext)) = Len(Items(This)) + 1
       /\ last'.op = "erase" /\ last'.out = "removed" =>
            /\ OthersKept(last'.key)
            /\ ~Holds(ThisNext, last'.key)
            /\ Sz' = Sz - 1
            /\ Len(Items(ThisNext)) = Len(Items(This)) - 1]_vars

\* An erase of a fill key has shrunk the table to one bucket, which keeps
\* the two small keys.
C14_Witness ==
    /\ last.op = "erase"
    /\ last.out = "removed"
    /\ last.key \in FillKeys
    /\ Len(Table) = 1
    /\ \A k \in VarKeys : Holds(This, k)
    /\ Len(Order) = Cardinality(VarKeys)

\* The place of a key in the insertion history.
Pos(ord, k) == CHOOSE n \in 1..Len(ord) : ord[n] = k

\* C15 as stated: in every bucket the entries lie in the order of their
\* insertion into the table.
C15_InsertionOrder ==
    \A b \in 1..Len(Table) :
        \A i, j \in 1..Len(Table[b]) :
            i < j => Pos(Order, Table[b][i][1]) < Pos(Order, Table[b][j][1])

\* The place of key k in the table of the step's start: the cursor of its
\* entry, or the position behind the entries of its bucket when the table
\* does not hold it.
PlaceOf(k) ==
    IF Holds(This, k) THEN find(This, k)
    ELSE <<get_hash(This, k), Len(Table[get_hash(This, k) + 1])>>

\* Cursor c comes before cursor d in bucket order then slot order.
Before(c, d) == c[1] < d[1] \/ (c[1] = d[1] /\ c[2] < d[2])

\* C15 as amended: in every bucket the entries lie in the order in which
\* they were added to the current bucket array.  An insert puts its entry
\* behind the entries of its bucket, an erase keeps the order of the
\* remaining entries, and a grow or shrink rehash then fills every bucket in
\* bucket order then slot order of the table it replaces: two entries that
\* share a bucket after the step lie in the order of their places before.
C15_RehashOrder ==
    [][ReachesLoadCheck =>
        \A b \in 1..Len(Table') :
            \A j \in 2..Len(Table'[b]) :
                Before(PlaceOf(Table'[b][j - 1][1]), PlaceOf(Table'[b][j][1]))]_vars

\* A shrink to one bucket has put the later of two entries first.
C15_Witness ==
    /\ last.op = "erase"
    /\ last.out = "removed"
    /\ Len(Table) = 1
    /\ Len(Table[1]) = 2
    /\ Table[1][1][1] = Order[2]
    /\ Table[1][2][1] = Order[1]

\* The cursors of the entries of m.
Cursors(m) == {<<p[1] - 1, p[2] - 1>> : p \in Slots(m)}

\* The non-empty buckets of m behind bucket b (indices from 0).
LaterBuckets(m, b) ==
    {f \in (b + 1)..(Len(m.Table) - 1) : Len(m.Table[f + 1]) > 0}

\* The least element of a non-empty set of numbers.
Least(S) == CHOOSE x \in S : \A y \in S : x <= y

\* C16: advancing the cursor (b, s) of an existing entry yields (b, s + 1)
\* when bucket b has a further slot, else (b', 0) for the first non-empty
\* bucket b' behind b, else the end cursor (bucket_count, 0); the result is
\* an existing entry or end(), and no bucket index from bucket_count on is
\* read.
C16_AdvanceRule ==
    \A c \in Cursors(This) :
        /\ Advance(This, c) =
              IF c[2] + 1 < Len(Table[c[1] + 1]) THEN <<c[1], c[2] + 1>>
              ELSE IF LaterBuckets(This, c[1]) # {}
                   THEN <<Least(LaterBuckets(This, c[1])), 0>>
                   ELSE <<Len(Table), 0>>
        /\ Valid(This, Advance(This, c))
              \/ IteratorEq(Advance(This, c), end(This))
        /\ \A f \in AdvanceReads(This, c) : f < Len(Table)

\* In a grown table one advance stays in its bucket, one skips empty
\* buckets to the next entry, and one skips empty buckets to end().
C16_Witness ==
    /\ Len(Table) > 1
    /\ \E c \in Cursors(This) : Advance(This, c)[1] = c[1]
    /\ \E c \in Cursors(This) :
          /\ Advance(This, c)[1] > c[1] + 1
          /\ Valid(This, Advance(This, c))
    /\ \E c \in Cursors(This) :
          /\ c[1] + 1 < Len(Table)
          /\ IteratorEq(Advance(This, c), end(This))

\* C17: no erase increases the bucket count or leaves it at 0, in a table
\* grown by inserts to several buckets in particular, and the erase that
\* removes the last entry ends with size() = 0 and one bucket.
C17_EraseAllShrinks ==
    [][last'.op = "erase" =>
        /\ Len(Table') <= Len(Table)
        /\ Len(Table') >= 1
        /\ Sz' <= Sz
        /\ Sz' = 0 => Len(Table') = 1]_vars

\* Erases have taken a table grown to 22 buckets down to the last size
\* that keeps them.
C17_Witness ==
    /\ last.op = "erase"
    /\ last.out = "removed"
    /\ Len(Table) = ResizeFactor * (LoadFactor + 1)
    /\ Sz = ResizeFactor + 1

\* C18: t = t leaves t with the keys, the values and the size() it had.
C18_SelfAssignment ==
    [][last'.op = "self-assign" =>
        /\ ItemSet(ThisNext) = ItemSet(This)
        /\ Sz' = Sz]_vars

====
